---- MODULE Spec2Model ----
(***************************************************************************)
(* White Noise Pomodoro: the countdown state machine of PomodoroApp and    *)
(* the stream lifecycle of WhiteNoisePlayer (white-noise-pomodoro.py).     *)
(*                                                                         *)
(* Every command of the Tk event loop (a button press, the checkbutton,    *)
(* a fired after() callback, the window close) runs to its end on the one  *)
(* control thread, so each is one action.  The calls into sounddevice      *)
(* (the OutputStream constructor, stream.start, stream.stop, stream.close) *)
(* may each raise; which of them do so during a command is the command's   *)
(* input d.  Two more threads exist: PortAudio's, which invokes            *)
(* WhiteNoisePlayer._callback while the stream is active, and the daemon   *)
(* thread that _play_ding_async starts.  A command steps twice only when   *)
(* it calls stream.stop() during a callback: stream.stop() returns after   *)
(* the callback has.                                                       *)
(***************************************************************************)
EXTENDS Integers, Sequences, FiniteSets, TLC

POMODORO_DURATION_SECONDS == 25 * 60

SHORT_BREAK_DURATION_SECONDS == 5 * 60

None == "None"

VARIABLES
    remaining_seconds,  \* PomodoroApp.remaining_seconds
    timer_running,      \* PomodoroApp.timer_running
    timer_id,           \* PomodoroApp.timer_id: None, "live" (names a scheduled
                        \* callback) or "fired" (names one that already ran)
    noise_desired,      \* PomodoroApp.noise_desired
    white_noise_var,    \* PomodoroApp.white_noise_var (the checkbutton's BooleanVar)
    timer_var,          \* PomodoroApp.timer_var as <<minutes, seconds>>
    _stream,            \* WhiteNoisePlayer._stream: None, "created" (constructed,
                        \* start() raised) or "started"
    scheduled,          \* number of _tick callbacks pending in Tk's after() queue
    destroyed,          \* root.destroy() has run
    _lock,              \* WhiteNoisePlayer._lock: "free" or its holder
    ctl,                \* the control thread: "idle" (in mainloop, between commands)
                        \* or "in_stop" (inside stream.stop(), holding _lock)
    blocked_cmd,        \* the command that is inside stream.stop(), or None
    audio,              \* PortAudio's thread for the stream of _stream: "off" (not
                        \* active), "waiting" (between callbacks) or "in_callback"
    cb_status,          \* the running _callback was given a non-empty status (and
                        \* printed "Audio stream warning")
    ding,               \* the chime thread: "none", "playing", or "failed" (the
                        \* last one printed "Unable to play ding")
    \* What the last command did (observation of the run, reset by every command):
    cmd,                \* its name
    raised,             \* an exception left the command
    reported,           \* _sync_noise_state printed "Unable to start white noise"
    chime_requested,    \* _play_ding_async was called
    expired,            \* _tick found remaining_seconds <= 0
    open_result,        \* "none", "ok", "ctor_failed", "start_failed"
    start_log,          \* one record per call of WhiteNoisePlayer.start
    stop_log,           \* one record per call of WhiteNoisePlayer.stop
    cancel_log,         \* one record per call of _stop_timer_internal
    chime_log,          \* one record per call of _play_ding_async: the state it found
    destroy_log,        \* one record per call of root.destroy: the state it found
    \* Kept across ticks:
    kind,               \* the last start command: None, "Work" or "Break"
    solo,               \* the interval was started by start_pomodoro while no timer
                        \* was running, and only ticks have run since
    stop_calls,         \* calls of WhiteNoisePlayer.stop since that start (0 if not solo)
    ticks               \* _tick callbacks that ran with the timer running since the
                        \* last start command

prog == <<remaining_seconds, timer_running, timer_id, noise_desired, white_noise_var,
          timer_var, _stream, scheduled, destroyed>>

threads == <<_lock, ctl, blocked_cmd, audio, cb_status, ding>>

obs == <<cmd, raised, reported, chime_requested, expired, open_result, start_log,
         stop_log, cancel_log, chime_log, destroy_log, kind, solo, stop_calls, ticks>>

vars == <<prog, threads, obs>>

\* The outcomes of the device calls a command makes (TRUE: the call succeeds).
\* stream.start() is not called when the constructor raised, nor close() when
\* stop() raised: such a call is listed as succeeding.
DeviceOutcomes ==
    {d \in [ctor : BOOLEAN, start : BOOLEAN, stop : BOOLEAN, close : BOOLEAN] :
        /\ ~d.ctor => d.start
        /\ ~d.stop => d.close}

\* The outcomes in which opening the output stream does not fail.
OpenSucceeds == {d \in DeviceOutcomes : d.ctor /\ d.start}

\* The program state at the start of command c, with the observations cleared.
Begin(c) ==
    [remaining_seconds |-> remaining_seconds, timer_running |-> timer_running,
     timer_id |-> timer_id, noise_desired |-> noise_desired,
     white_noise_var |-> white_noise_var, timer_var |-> timer_var,
     stream |-> _stream, scheduled |-> scheduled, destroyed |-> destroyed,
     audio |-> audio, ding |-> ding,
     cmd |-> c, exc |-> FALSE, reported |-> FALSE, chime |-> FALSE,
     expired |-> FALSE, open_result |-> "none", start_log |-> <<>>,
     stop_log |-> <<>>, cancel_log |-> <<>>, chime_log |-> <<>>,
     destroy_log |-> <<>>, kind |-> kind, solo |-> solo,
     stop_calls |-> stop_calls, ticks |-> ticks]

\* The state the command leaves behind.
Commit(r) ==
    /\ remaining_seconds' = r.remaining_seconds
    /\ timer_running' = r.timer_running
    /\ timer_id' = r.timer_id
    /\ noise_desired' = r.noise_desired
    /\ white_noise_var' = r.white_noise_var
    /\ timer_var' = r.timer_var
    /\ _stream' = r.stream
    /\ scheduled' = r.scheduled
    /\ destroyed' = r.destroyed
    /\ audio' = r.audio
    /\ ding' = r.ding
    /\ ctl' = "idle"
    /\ blocked_cmd' = None
    /\ _lock' = "free"
    /\ UNCHANGED cb_status
    /\ cmd' = r.cmd
    /\ raised' = r.exc
    /\ reported' = r.reported
    /\ chime_requested' = r.chime
    /\ expired' = r.expired
    /\ open_result' = r.open_result
    /\ start_log' = r.start_log
    /\ stop_log' = r.stop_log
    /\ cancel_log' = r.cancel_log
    /\ kind' = r.kind
    /\ solo' = r.solo
    /\ stop_calls' = r.stop_calls
    /\ chime_log' = r.chime_log
    /\ destroy_log' = r.destroy_log
    /\ ticks' = r.ticks

Max(a, b) == IF a >= b THEN a ELSE b

\* WhiteNoisePlayer.start: open and start a stream unless a handle exists.
WhiteNoisePlayer_start(r, d) ==
    LET entry(post, opened, exc) ==
            [pre |-> r.stream, post |-> post, opened |-> opened, raised |-> exc]
    IN  IF r.stream = None
        THEN IF ~d.ctor
             THEN [r EXCEPT !.exc = TRUE, !.open_result = "ctor_failed",
                            !.start_log = Append(@, entry(None, FALSE, TRUE))]
             ELSE IF ~d.start
             THEN [r EXCEPT !.stream = "created", !.exc = TRUE,
                            !.open_result = "start_failed",
                            !.start_log = Append(@, entry("created", TRUE, TRUE))]
             ELSE [r EXCEPT !.stream = "started", !.open_result = "ok",
                            !.audio = "waiting",
                            !.start_log = Append(@, entry("started", TRUE, FALSE))]
        ELSE [r EXCEPT !.start_log = Append(@, entry(r.stream, FALSE, FALSE))]

\* WhiteNoisePlayer.stop without the "is not None" test.
WhiteNoisePlayer_stop_unguarded(r, d) ==
    LET n == IF r.solo THEN r.stop_calls + 1 ELSE 0
        entry(calls, closed, exc) ==
            [pre |-> r.stream, post |-> None, device_calls |-> calls,
             closed |-> closed, raised |-> exc]
    IN  IF ~d.stop \/ r.stream = None
        THEN [r EXCEPT !.stream = None, !.audio = "off", !.exc = TRUE, !.stop_calls = n,
                       !.stop_log = Append(@, entry(1, FALSE, TRUE))]
        ELSE IF ~d.close
        THEN [r EXCEPT !.stream = None, !.audio = "off", !.exc = TRUE, !.stop_calls = n,
                       !.stop_log = Append(@, entry(2, FALSE, TRUE))]
        ELSE [r EXCEPT !.stream = None, !.audio = "off", !.stop_calls = n,
                       !.stop_log = Append(@, entry(2, TRUE, FALSE))]

\* WhiteNoisePlayer.stop that forgets the handle without stopping the stream.
WhiteNoisePlayer_stop_drops_handle(r, d) ==
    LET n == IF r.solo THEN r.stop_calls + 1 ELSE 0
    IN  [r EXCEPT !.stream = None, !.stop_calls = n,
                  !.stop_log = Append(@, [pre |-> r.stream, post |-> None,
                                          device_calls |-> 0, closed |-> FALSE,
                                          raised |-> FALSE])]

\* WhiteNoisePlayer.stop: stop and close the stream if a handle exists; the
\* finally clause drops the handle whether or not stop()/close() raised.
WhiteNoisePlayer_stop(r, d) ==
    LET n == IF r.solo THEN r.stop_calls + 1 ELSE 0
        entry(post, calls, closed, exc) ==
            [pre |-> r.stream, post |-> post, device_calls |-> calls,
             closed |-> closed, raised |-> exc]
    IN  IF r.stream # None
        THEN IF ~d.stop
             THEN [r EXCEPT !.stream = None, !.audio = "off", !.exc = TRUE, !.stop_calls = n,
                            !.stop_log = Append(@, entry(None, 1, FALSE, TRUE))]
             ELSE IF ~d.close
             THEN [r EXCEPT !.stream = None, !.audio = "off", !.exc = TRUE, !.stop_calls = n,
                            !.stop_log = Append(@, entry(None, 2, FALSE, TRUE))]
             ELSE [r EXCEPT !.stream = None, !.audio = "off", !.stop_calls = n,
                            !.stop_log = Append(@, entry(None, 2, TRUE, FALSE))]
        ELSE [r EXCEPT !.stop_calls = n,
                       !.stop_log = Append(@, entry(r.stream, 0, FALSE, FALSE))]

\* PomodoroApp._play_ding_async: hand the chime to a new daemon thread.
_play_ding_async(r) ==
    [r EXCEPT !.chime = TRUE, !.ding = "playing",
              !.chime_log = Append(@, [stream |-> r.stream,
                                       timer_running |-> r.timer_running,
                                       stops |-> Len(r.stop_log)])]

\* PomodoroApp._update_timer_label
_update_timer_label(r) ==
    LET shown == Max(r.remaining_seconds, 0)
    IN  [r EXCEPT !.timer_var = <<shown \div 60, shown % 60>>]

\* _stop_timer_internal without the after_cancel.
_stop_timer_internal_keeps_tick(r, d) ==
    LET r1 == [r EXCEPT !.timer_running = FALSE, !.noise_desired = FALSE]
        r3 == WhiteNoisePlayer_stop(r1, d)
        r4 == IF r3.exc THEN r3
              ELSE _update_timer_label([r3 EXCEPT !.remaining_seconds = 0])
        entry == [pre_remaining |-> r.remaining_seconds, pre_running |-> r.timer_running,
                  pre_stream |-> r.stream, returned |-> ~r4.exc,
                  remaining_seconds |-> r4.remaining_seconds,
                  timer_running |-> r4.timer_running, timer_id |-> r4.timer_id,
                  scheduled |-> r4.scheduled, stream |-> r4.stream]
    IN  [r4 EXCEPT !.cancel_log = Append(@, entry)]

\* PomodoroApp._stop_timer_internal
_stop_timer_internal(r, d) ==
    LET r1 == [r EXCEPT !.timer_running = FALSE, !.noise_desired = FALSE]
        r2 == IF r1.timer_id # None
              THEN [r1 EXCEPT !.scheduled = IF r1.timer_id = "live" THEN @ - 1 ELSE @,
                              !.timer_id = None]
              ELSE r1
        r3 == WhiteNoisePlayer_stop(r2, d)
        r4 == IF r3.exc THEN r3
              ELSE _update_timer_label([r3 EXCEPT !.remaining_seconds = 0])
        entry == [pre_remaining |-> r.remaining_seconds, pre_running |-> r.timer_running,
                  pre_stream |-> r.stream, returned |-> ~r4.exc,
                  remaining_seconds |-> r4.remaining_seconds,
                  timer_running |-> r4.timer_running, timer_id |-> r4.timer_id,
                  scheduled |-> r4.scheduled, stream |-> r4.stream]
    IN  [r4 EXCEPT !.cancel_log = Append(@, entry)]

\* _sync_noise_state that does not read the checkbutton.
_sync_noise_state_ignores_toggle(r, d) ==
    IF r.timer_running /\ r.noise_desired
    THEN LET s == WhiteNoisePlayer_start(r, d)
         IN  IF s.exc THEN [s EXCEPT !.exc = FALSE, !.reported = TRUE] ELSE s
    ELSE WhiteNoisePlayer_stop(r, d)

\* _sync_noise_state that does not read noise_desired.
_sync_noise_state_ignores_kind(r, d) ==
    IF r.timer_running /\ r.white_noise_var
    THEN LET s == WhiteNoisePlayer_start(r, d)
         IN  IF s.exc THEN [s EXCEPT !.exc = FALSE, !.reported = TRUE] ELSE s
    ELSE WhiteNoisePlayer_stop(r, d)

\* _sync_noise_state that stops the whole timer instead of the player.
_sync_noise_state_cancels(r, d) ==
    IF r.timer_running /\ r.noise_desired /\ r.white_noise_var
    THEN LET s == WhiteNoisePlayer_start(r, d)
         IN  IF s.exc THEN [s EXCEPT !.exc = FALSE, !.reported = TRUE] ELSE s
    ELSE _stop_timer_internal(r, d)

\* PomodoroApp._sync_noise_state
_sync_noise_state(r, d) ==
    IF r.timer_running /\ r.noise_desired /\ r.white_noise_var
    THEN LET s == WhiteNoisePlayer_start(r, d)
         IN  IF s.exc THEN [s EXCEPT !.exc = FALSE, !.reported = TRUE] ELSE s
    ELSE WhiteNoisePlayer_stop(r, d)

\* _start_timer that does not cancel the interval in progress.
_start_timer_without_cancel(r, duration_seconds, wants_noise, d) ==
    LET r2 == [r EXCEPT !.remaining_seconds = duration_seconds,
                        !.timer_running = TRUE, !.noise_desired = wants_noise]
        r3 == _sync_noise_state(_update_timer_label(r2), d)
    IN  IF r3.exc THEN r3
        ELSE [r3 EXCEPT !.timer_id = "live", !.scheduled = @ + 1]

\* PomodoroApp._start_timer
_start_timer(r, duration_seconds, wants_noise, d) ==
    LET r1 == _stop_timer_internal(r, d)
        r2 == [r1 EXCEPT !.remaining_seconds = duration_seconds,
                         !.timer_running = TRUE, !.noise_desired = wants_noise]
        r3 == _sync_noise_state(_update_timer_label(r2), d)
    IN  IF r1.exc THEN r1
        ELSE IF r3.exc THEN r3
        ELSE [r3 EXCEPT !.timer_id = "live", !.scheduled = @ + 1]

\* _tick whose expiry branch does not stop the player.
_tick_body_without_stop(r, d) ==
    LET r0 == [r EXCEPT !.scheduled = @ - 1,
                        !.timer_id = IF @ = "live" THEN "fired" ELSE @]
        r1 == _update_timer_label([r0 EXCEPT !.remaining_seconds = @ - 1,
                                             !.ticks = @ + 1])
        r2 == [r1 EXCEPT !.timer_running = FALSE, !.timer_id = None,
                         !.noise_desired = FALSE, !.expired = TRUE]
    IN  IF ~r0.timer_running THEN r0
        ELSE IF r1.remaining_seconds <= 0
        THEN _play_ding_async(r2)
        ELSE [r1 EXCEPT !.timer_id = "live", !.scheduled = @ + 1]

\* _tick that requests the chime before it stops the player.
_tick_body_chime_first(r, d) ==
    LET r0 == [r EXCEPT !.scheduled = @ - 1,
                        !.timer_id = IF @ = "live" THEN "fired" ELSE @]
        r1 == _update_timer_label([r0 EXCEPT !.remaining_seconds = @ - 1,
                                             !.ticks = @ + 1])
        r2 == [r1 EXCEPT !.timer_running = FALSE, !.timer_id = None,
                         !.noise_desired = FALSE, !.expired = TRUE]
    IN  IF ~r0.timer_running THEN r0
        ELSE IF r1.remaining_seconds <= 0
        THEN WhiteNoisePlayer_stop(_play_ding_async(r2), d)
        ELSE [r1 EXCEPT !.timer_id = "live", !.scheduled = @ + 1]

\* _tick that expires one second late (< instead of <=).
_tick_body_off_by_one(r, d) ==
    LET r0 == [r EXCEPT !.scheduled = @ - 1,
                        !.timer_id = IF @ = "live" THEN "fired" ELSE @]
        r1 == _update_timer_label([r0 EXCEPT !.remaining_seconds = @ - 1,
                                             !.ticks = @ + 1])
        r2 == [r1 EXCEPT !.timer_running = FALSE, !.timer_id = None,
                         !.noise_desired = FALSE, !.expired = TRUE]
        r3 == WhiteNoisePlayer_stop(r2, d)
    IN  IF ~r0.timer_running THEN r0
        ELSE IF r1.remaining_seconds < 0
        THEN IF r3.exc THEN r3 ELSE _play_ding_async(r3)
        ELSE [r1 EXCEPT !.timer_id = "live", !.scheduled = @ + 1]

\* PomodoroApp._tick, run by Tk when a scheduled callback comes due.
_tick_body(r, d) ==
    LET r0 == [r EXCEPT !.scheduled = @ - 1,
                        !.timer_id = IF @ = "live" THEN "fired" ELSE @]
        r1 == _update_timer_label([r0 EXCEPT !.remaining_seconds = @ - 1,
                                             !.ticks = @ + 1])
        r2 == [r1 EXCEPT !.timer_running = FALSE, !.timer_id = None,
                         !.noise_desired = FALSE, !.expired = TRUE]
        r3 == WhiteNoisePlayer_stop(r2, d)
    IN  IF ~r0.timer_running THEN r0
        ELSE IF r1.remaining_seconds <= 0
        THEN IF r3.exc THEN r3 ELSE _play_ding_async(r3)
        ELSE [r1 EXCEPT !.timer_id = "live", !.scheduled = @ + 1]

\* on_close that stops the player but not the timer.
on_close_body_keeps_timer(r, d) ==
    LET r2 == WhiteNoisePlayer_stop(r, d)
    IN  IF r2.exc THEN r2
        ELSE [r2 EXCEPT !.destroyed = TRUE, !.scheduled = 0,
                        !.destroy_log = Append(@, [stream |-> r2.stream,
                                                   scheduled |-> r2.scheduled,
                                                   timer_id |-> r2.timer_id,
                                                   pre_stream |-> r.stream,
                                                   pre_running |-> r.timer_running])]

\* PomodoroApp.on_close
on_close_body(r, d) ==
    LET r1 == _stop_timer_internal(r, d)
        r2 == WhiteNoisePlayer_stop(r1, d)
    IN  IF r1.exc THEN r1
        ELSE IF r2.exc THEN r2
        ELSE [r2 EXCEPT !.destroyed = TRUE, !.scheduled = 0,
                        !.destroy_log = Append(@, [stream |-> r2.stream,
                                                   scheduled |-> r2.scheduled,
                                                   timer_id |-> r2.timer_id,
                                                   pre_stream |-> r.stream,
                                                   pre_running |-> r.timer_running])]

\* Command c, run now, calls stream.stop() on a stream handle.
ReachesDeviceStop(c) ==
    /\ _stream # None
    /\ CASE c = "on_noise_toggle" ->
               ~(timer_running /\ noise_desired /\ ~white_noise_var)
         [] c = "_tick" -> timer_running /\ remaining_seconds - 1 <= 0
         [] OTHER -> TRUE

\* Tk can dispatch command c.
Dispatchable(c) ==
    /\ ~destroyed
    /\ c = "_tick" => scheduled > 0

\* The control thread can run command c to its end: it is in the main loop
\* and the command does not have to wait for a callback, or it is command c
\* inside stream.stop() and the callback has returned.
MayRun(c) ==
    /\ Dispatchable(c)
    /\ IF ctl = "idle"
       THEN ~(ReachesDeviceStop(c) /\ audio = "in_callback")
       ELSE blocked_cmd = c /\ audio # "in_callback"

Init ==
    /\ remaining_seconds = 0
    /\ timer_running = FALSE
    /\ timer_id = None
    /\ noise_desired = FALSE
    /\ white_noise_var = TRUE
    /\ timer_var = <<0, 0>>
    /\ _stream = None
    /\ scheduled = 0
    /\ destroyed = FALSE
    /\ _lock = "free"
    /\ ctl = "idle"
    /\ blocked_cmd = None
    /\ audio = "off"
    /\ cb_status = FALSE
    /\ ding = "none"
    /\ cmd = "init"
    /\ raised = FALSE
    /\ reported = FALSE
    /\ chime_requested = FALSE
    /\ expired = FALSE
    /\ open_result = "none"
    /\ start_log = <<>>
    /\ stop_log = <<>>
    /\ cancel_log = <<>>
    /\ kind = None
    /\ solo = FALSE
    /\ stop_calls = 0
    /\ chime_log = <<>>
    /\ destroy_log = <<>>
    /\ ticks = 0

\* The "Start Pomodoro" button.
start_pomodoro(D) ==
    /\ MayRun("start_pomodoro")
    /\ \E d \in D :
        Commit(_start_timer([Begin("start_pomodoro") EXCEPT
                                 !.kind = "Work", !.solo = ~timer_running,
                                 !.stop_calls = 0, !.ticks = 0],
                            POMODORO_DURATION_SECONDS, TRUE, d))

\* The "Start Break" button.
start_break(D) ==
    /\ MayRun("start_break")
    /\ \E d \in D :
        Commit(_start_timer([Begin("start_break") EXCEPT
                                 !.kind = "Break", !.solo = FALSE,
                                 !.stop_calls = 0, !.ticks = 0],
                            SHORT_BREAK_DURATION_SECONDS, FALSE, d))

\* A checkbutton whose command does not reach _sync_noise_state.
on_noise_toggle_without_sync(D) ==
    /\ MayRun("on_noise_toggle")
    /\ \E d \in D :
        Commit([Begin("on_noise_toggle") EXCEPT
                    !.white_noise_var = ~white_noise_var,
                    !.solo = FALSE, !.stop_calls = 0])

\* The "White Noise" checkbutton: Tk flips white_noise_var, then runs the command.
on_noise_toggle(D) ==
    /\ MayRun("on_noise_toggle")
    /\ \E d \in D :
        Commit(_sync_noise_state([Begin("on_noise_toggle") EXCEPT
                                      !.white_noise_var = ~white_noise_var,
                                      !.solo = FALSE, !.stop_calls = 0], d))

\* A scheduled root.after(1000, self._tick) callback comes due.
_tick(D) ==
    /\ MayRun("_tick")
    /\ \E d \in D : Commit(_tick_body(Begin("_tick"), d))

\* The window manager's WM_DELETE_WINDOW.
on_close(D) ==
    /\ MayRun("on_close")
    /\ \E d \in D :
        Commit(on_close_body([Begin("on_close") EXCEPT
                                  !.solo = FALSE, !.stop_calls = 0], d))

Step(D) ==
    \/ start_pomodoro(D)
    \/ start_break(D)
    \/ on_noise_toggle(D)
    \/ _tick(D)
    \/ on_close(D)

Next == Step(DeviceOutcomes)

Spec == Init /\ [][Next]_vars

\* The program when opening the output stream never fails.
NextOpenOK == Step(OpenSucceeds)

SpecOpenOK == Init /\ [][NextOpenOK]_vars

Commands == {"start_pomodoro", "start_break", "on_noise_toggle", "_tick", "on_close"}

\* A command takes _lock in WhiteNoisePlayer.stop and calls stream.stop()
\* while a callback is running: the call does not return yet.
stream_stop_blocks ==
    /\ ctl = "idle"
    /\ audio = "in_callback"
    /\ \E c \in Commands :
           /\ Dispatchable(c)
           /\ ReachesDeviceStop(c)
           /\ blocked_cmd' = c
    /\ ctl' = "in_stop"
    /\ _lock' = "control"
    /\ UNCHANGED <<prog, audio, cb_status, ding, obs>>

\* _callback that takes the player's lock.
_callback_returns_locked ==
    /\ ~destroyed
    /\ audio = "in_callback"
    /\ _lock = "free"
    /\ audio' = "waiting"
    /\ cb_status' = FALSE
    /\ UNCHANGED <<prog, _lock, ctl, blocked_cmd, ding, obs>>

\* PortAudio invokes WhiteNoisePlayer._callback on the active stream, with or
\* without a status; a non-empty status is printed.  No callback starts once
\* stream.stop() has been called.
_callback ==
    /\ ~destroyed
    /\ audio = "waiting"
    /\ ctl = "idle"
    /\ audio' = "in_callback"
    /\ cb_status' \in BOOLEAN
    /\ UNCHANGED <<prog, _lock, ctl, blocked_cmd, ding, obs>>

\* _callback has filled outdata with noise and returns.
_callback_returns ==
    /\ ~destroyed
    /\ audio = "in_callback"
    /\ audio' = "waiting"
    /\ cb_status' = FALSE
    /\ UNCHANGED <<prog, _lock, ctl, blocked_cmd, ding, obs>>

\* A chime thread whose playback stops the noise player.
_play_ding_stops_noise ==
    /\ ~destroyed
    /\ ding = "playing"
    /\ ding' \in {"none", "failed"}
    /\ _stream' = None
    /\ UNCHANGED <<remaining_seconds, timer_running, timer_id, noise_desired,
                   white_noise_var, timer_var, scheduled, destroyed,
                   _lock, ctl, blocked_cmd, audio, cb_status, obs>>

\* PomodoroApp._play_ding on the chime thread: sd.play(..., blocking=True)
\* returns, or raises and the exception is printed.
_play_ding ==
    /\ ~destroyed
    /\ ding = "playing"
    /\ ding' \in {"none", "failed"}
    /\ UNCHANGED <<prog, _lock, ctl, blocked_cmd, audio, cb_status, obs>>

\* The program with its three threads.
NextThreads ==
    \/ Step(DeviceOutcomes)
    \/ stream_stop_blocks
    \/ _callback
    \/ _callback_returns
    \/ _play_ding

SpecThreads == Init /\ [][NextThreads]_vars

\* A control thread that is inside stream.stop() goes on when it can.
stream_stop_returns == ctl = "in_stop" /\ Step(DeviceOutcomes)

\* The user acts between intervals or before the first tick of one.
UserActs == ~timer_running \/ ticks = 0

\* The program with the audio thread, when the user acts only at those times;
\* every call site of WhiteNoisePlayer.stop is still reached with a stream
\* open and a callback running.
NextStop ==
    \/ UserActs /\ start_pomodoro(DeviceOutcomes)
    \/ UserActs /\ start_break(DeviceOutcomes)
    \/ UserActs /\ on_noise_toggle(DeviceOutcomes)
    \/ UserActs /\ on_close(DeviceOutcomes)
    \/ _tick(DeviceOutcomes)
    \/ stream_stop_blocks
    \/ _callback
    \/ _callback_returns

\* The callback always returns (it takes no lock and makes no blocking call),
\* and stream.stop() returns once it has.
SpecStopFair ==
    /\ Init
    /\ [][NextStop]_vars
    /\ WF_vars(_callback_returns)
    /\ WF_vars(stream_stop_returns)

\* The program when one interval is started after construction and no other
\* command follows: only the scheduled ticks run.
NextSolo ==
    \/ cmd = "init" /\ start_pomodoro(DeviceOutcomes)
    \/ cmd = "init" /\ start_break(DeviceOutcomes)
    \/ _tick(DeviceOutcomes)

\* Tk's event loop runs every callback that root.after scheduled.
SpecSoloFair == Init /\ [][NextSolo]_vars /\ WF_vars(_tick(DeviceOutcomes))

(***************************************************************************)
(* Properties                                                              *)
(***************************************************************************)

\* The engine holds a running output stream.
StreamOpen == _stream = "started"

\* NoiseDesire of the specification: running, a noise-producing interval, toggle on.
NoiseDesire == timer_running /\ noise_desired /\ white_noise_var

\* C1 (checked under SpecOpenOK, where opening the stream never fails): after
\* every command the noise stream is open if and only if the timer is running,
\* the interval wants noise and the user toggle is on; no handle exists otherwise.
C1_StreamOpenIffNoiseDesire ==
    /\ StreamOpen <=> NoiseDesire
    /\ ~StreamOpen => _stream = None

C1_Witness ==
    /\ cmd = "_tick"
    /\ StreamOpen
    /\ NoiseDesire
    /\ remaining_seconds < POMODORO_DURATION_SECONDS

\* C2 (as claimed): whenever opening the stream failed during the last command,
\* the failure was reported, no exception left the command, and no stream
\* handle is retained.
C2_FailedOpenLeavesIdle ==
    open_result \in {"ctor_failed", "start_failed"} =>
        /\ reported
        /\ ~raised
        /\ _stream = None

\* C3 (as claimed): no command is cut short by a device-layer exception: no
\* exception leaves a command, an expiring tick requests the chime, every
\* _stop_timer_internal resets remaining_seconds, and on_close destroys the window.
C3_NoDeviceExceptionPropagates ==
    /\ ~raised
    /\ (cmd = "_tick" /\ expired) => chime_requested
    /\ \A i \in DOMAIN cancel_log : cancel_log[i].remaining_seconds = 0
    /\ cmd = "on_close" => destroyed

\* C4 (as claimed): a call of start that finds a handle opens nothing and keeps
\* the handle, and a handle is only ever dropped after the stream was closed.
C4_NoDoubleOpenNoLeak ==
    /\ \A i \in DOMAIN start_log :
           start_log[i].pre # None =>
               ~start_log[i].opened /\ start_log[i].post = start_log[i].pre
    /\ \A i \in DOMAIN stop_log :
           (stop_log[i].pre # None /\ stop_log[i].post = None) => stop_log[i].closed

\* A toggle command that reaches WhiteNoisePlayer.stop with no stream handle.
ToggleStopsIdleEngine ==
    /\ cmd' = "on_noise_toggle"
    /\ _stream = None
    /\ ~(timer_running /\ noise_desired /\ white_noise_var')

\* C5: a call of WhiteNoisePlayer.stop that finds no stream handle makes no
\* device call, leaves the handle None and raises nothing; a command that
\* consists of such a call alone changes neither engine nor timer state.
C5_StopWhenIdleIsNoOp ==
    /\ [](\A i \in DOMAIN stop_log :
              stop_log[i].pre = None =>
                  /\ stop_log[i].post = None
                  /\ stop_log[i].device_calls = 0
                  /\ ~stop_log[i].raised)
    /\ [][ToggleStopsIdleEngine =>
              /\ ~raised'
              /\ UNCHANGED <<remaining_seconds, timer_running, timer_id,
                             noise_desired, timer_var, _stream, scheduled,
                             destroyed>>]_vars

C5_Witness ==
    /\ cmd = "on_noise_toggle"
    /\ timer_running
    /\ ~noise_desired
    /\ Len(stop_log) = 1
    /\ stop_log[1].pre = None
    /\ remaining_seconds < SHORT_BREAK_DURATION_SECONDS

\* C6 (as claimed): a command requests the chime exactly when it is a tick
\* whose countdown reached 0.
C6_ChimeIffExpired == chime_requested <=> expired

\* The last command was the expiring tick of a Work interval that was started
\* while no timer was running and saw no other command.
SoloWorkExpired == solo /\ cmd = "_tick" /\ expired

\* C7 (as claimed): such a run makes exactly one call of WhiteNoisePlayer.stop.
C7_ExactlyOneStopCall == SoloWorkExpired => stop_calls = 1

\* C7 (amended): such a run makes two calls of WhiteNoisePlayer.stop when the
\* toggle is on (by _stop_timer_internal and by the expiring tick) and three
\* when it is off (also by _sync_noise_state).
C7_StopCallsOfSoloRun ==
    SoloWorkExpired => stop_calls = IF white_noise_var THEN 2 ELSE 3

C7_Witness ==
    /\ SoloWorkExpired
    /\ white_noise_var
    /\ remaining_seconds = 0
    /\ stop_log[1].pre = "started"

\* C8: from start_break until the next start_pomodoro no stream handle exists,
\* whatever the toggle is; in particular start_break closes a running stream.
C8_BreakNeverHasNoise == kind = "Break" => _stream = None

C8_Witness ==
    /\ kind = "Break"
    /\ cmd = "on_noise_toggle"
    /\ timer_running
    /\ white_noise_var
    /\ remaining_seconds < SHORT_BREAK_DURATION_SECONDS

\* The toggle is switched off during a running Work interval.
ToggleOffMidWork ==
    /\ cmd' = "on_noise_toggle"
    /\ timer_running
    /\ noise_desired
    /\ white_noise_var
    /\ ~white_noise_var'

\* C9: switching the toggle off during a running Work interval leaves no stream
\* handle and changes neither remaining_seconds, timer_running, noise_desired
\* nor the pending tick.
C9_ToggleOffOnlyStopsNoise ==
    [][ToggleOffMidWork =>
          /\ _stream' = None
          /\ UNCHANGED <<remaining_seconds, timer_running, noise_desired,
                         timer_id, scheduled, timer_var>>]_vars

C9_Witness ==
    /\ cmd = "on_noise_toggle"
    /\ timer_running
    /\ noise_desired
    /\ ~white_noise_var
    /\ Len(stop_log) = 1
    /\ stop_log[1].pre = "started"
    /\ _stream = None
    /\ scheduled = 1
    /\ remaining_seconds \in 1..(POMODORO_DURATION_SECONDS - 1)

\* C10: when _stop_timer_internal returns, remaining_seconds is 0, the timer is
\* not running, no tick is pending and no stream handle exists; and whenever
\* the timer is not running no tick is pending, so none can fire later.
C10_CancelResetsEverything ==
    /\ \A i \in DOMAIN cancel_log :
           cancel_log[i].returned =>
               /\ cancel_log[i].remaining_seconds = 0
               /\ ~cancel_log[i].timer_running
               /\ cancel_log[i].timer_id = None
               /\ cancel_log[i].scheduled = 0
               /\ cancel_log[i].stream = None
    /\ ~timer_running => scheduled = 0

C10_Witness ==
    /\ Len(cancel_log) = 1
    /\ cancel_log[1].returned
    /\ cancel_log[1].pre_running
    /\ cancel_log[1].pre_remaining = 742
    /\ cancel_log[1].pre_stream = "started"

\* The duration of the interval the last start command asked for.
KindDuration ==
    IF kind = "Work" THEN POMODORO_DURATION_SECONDS ELSE SHORT_BREAK_DURATION_SECONDS

\* C11: whenever on_close reaches root.destroy, no stream handle exists and no
\* tick is scheduled; and however on_close ends, it leaves no stream handle
\* and no pending tick behind.
C11_CloseTearsDownFirst ==
    /\ \A i \in DOMAIN destroy_log :
           /\ destroy_log[i].stream = None
           /\ destroy_log[i].scheduled = 0
           /\ destroy_log[i].timer_id = None
    /\ destroyed => _stream = None /\ scheduled = 0 /\ ~timer_running
    /\ cmd = "on_close" => _stream = None /\ scheduled = 0

C11_Witness ==
    /\ destroyed
    /\ Len(destroy_log) = 1
    /\ destroy_log[1].pre_stream = "started"
    /\ destroy_log[1].pre_running
    /\ cancel_log[1].pre_remaining \in 1..(POMODORO_DURATION_SECONDS - 1)

\* The toggle is switched on again during a running Work interval whose stream
\* was closed.
ToggleOnMidWork ==
    /\ cmd' = "on_noise_toggle"
    /\ timer_running
    /\ noise_desired
    /\ ~white_noise_var
    /\ white_noise_var'
    /\ _stream = None

\* C15 (checked under SpecOpenOK, where the device opens): switching the toggle
\* on again during a running Work interval opens the noise stream and changes
\* neither remaining_seconds nor the running interval and its pending tick.
C15_NoiseResumesOnToggleOn ==
    [][ToggleOnMidWork =>
          /\ _stream' = "started"
          /\ UNCHANGED <<remaining_seconds, timer_running, noise_desired,
                         timer_id, scheduled, timer_var, ticks>>]_vars

C15_Witness ==
    /\ cmd = "on_noise_toggle"
    /\ white_noise_var
    /\ timer_running
    /\ noise_desired
    /\ Len(start_log) = 1
    /\ start_log[1].pre = None
    /\ _stream = "started"
    /\ ticks > 0
    /\ remaining_seconds = POMODORO_DURATION_SECONDS - ticks

\* C17: at most one tick is ever scheduled; when a start command returns,
\* remaining_seconds is the new duration, the timer runs and exactly one tick
\* is pending; and every tick of a running timer lowers remaining_seconds by 1.
C17_RestartLeavesOneTick ==
    /\ [](/\ scheduled \in {0, 1}
          /\ (cmd \in {"start_pomodoro", "start_break"} /\ ~raised) =>
                 /\ remaining_seconds = KindDuration
                 /\ timer_running
                 /\ scheduled = 1
                 /\ timer_id = "live"
                 /\ noise_desired = (kind = "Work"))
    /\ [][ticks' = ticks + 1 => remaining_seconds' = remaining_seconds - 1]_vars

C17_Witness ==
    /\ cmd = "start_break"
    /\ ~raised
    /\ Len(cancel_log) = 1
    /\ cancel_log[1].pre_running
    /\ cancel_log[1].pre_remaining = 1000
    /\ scheduled = 1
    /\ remaining_seconds = SHORT_BREAK_DURATION_SECONDS

\* C18 (checked under SpecSoloFair: one start, then only ticks, every scheduled
\* tick eventually runs): the interval expires; at expiry exactly as many ticks
\* as its duration have run, the timer is stopped at 0 and no tick is pending.
C18_IntervalTerminates ==
    /\ [](expired =>
              /\ ticks = KindDuration
              /\ ~timer_running
              /\ remaining_seconds = 0
              /\ timer_id = None
              /\ scheduled = 0)
    /\ [](~timer_running => scheduled = 0)
    /\ (timer_running ~> expired)
    /\ [][expired => UNCHANGED vars]_vars

C18_Witness ==
    /\ expired
    /\ kind = "Work"
    /\ ticks = POMODORO_DURATION_SECONDS
    /\ ~timer_running

\* C19: whenever the chime is requested, the player has already been stopped:
\* _play_ding_async finds no stream handle and the timer not running.
C19_StopBeforeChime ==
    \A i \in DOMAIN chime_log :
        /\ chime_log[i].stream = None
        /\ ~chime_log[i].timer_running
        /\ chime_log[i].stops >= 1

C19_Witness ==
    /\ cmd = "_tick"
    /\ Len(chime_log) = 1
    /\ Len(stop_log) = 1
    /\ stop_log[1].pre = "started"
    /\ stop_log[1].closed

\* C20 (as claimed): remaining_seconds is never negative, and the timer runs
\* if and only if a tick is pending if and only if remaining_seconds > 0.
C20_TimerStateConsistent ==
    /\ remaining_seconds >= 0
    /\ timer_running <=> timer_id # None
    /\ timer_running <=> remaining_seconds > 0

ChimeThreadEnds == ding = "playing" /\ ding' \in {"none", "failed"}

\* C14 (checked under SpecThreads): the expiring tick returns to the main loop
\* while the chime thread is playing; while it plays, every command can still
\* be run; and the end of the chime thread, failed or not, changes no timer or
\* engine state and raises nothing in the control thread.
C14_ChimeIsFireAndForget ==
    /\ [][(ticks' = ticks + 1 /\ chime_requested') =>
              ding' = "playing" /\ ctl' = "idle"]_vars
    /\ []((ding = "playing" /\ ~destroyed /\ ctl = "idle" /\ audio # "in_callback") =>
              \A c \in Commands \ {"_tick"} : MayRun(c))
    /\ [][ChimeThreadEnds => UNCHANGED <<prog, _lock, ctl, blocked_cmd, audio, obs>>]_vars

C14_Witness ==
    /\ ding = "playing"
    /\ cmd = "start_pomodoro"
    /\ ~raised
    /\ _stream = "started"
    /\ audio = "in_callback"
    /\ timer_running

\* C16 (as claimed): when a callback that was given a non-empty status
\* returns, the player holds no stream handle any more.
C16_InterruptionForcesIdle ==
    [][(audio = "in_callback" /\ cb_status /\ audio' # "in_callback") =>
           _stream' = None]_vars

TypeOK ==
    /\ remaining_seconds \in 0..POMODORO_DURATION_SECONDS
    /\ timer_running \in BOOLEAN
    /\ timer_id \in {None, "live", "fired"}
    /\ noise_desired \in BOOLEAN
    /\ white_noise_var \in BOOLEAN
    /\ _stream \in {None, "created", "started"}
    /\ scheduled \in 0..1
    /\ destroyed \in BOOLEAN
    /\ stop_calls \in 0..3
    /\ _lock \in {"free", "control"}
    /\ ctl \in {"idle", "in_stop"}
    /\ blocked_cmd \in Commands \cup {None}
    /\ audio \in {"off", "waiting", "in_callback"}
    /\ cb_status \in BOOLEAN
    /\ ding \in {"none", "playing", "failed"}

====
